---- MODULE Spec2Model ----
(***************************************************************************)
(* ENEM TRI score calculator: the Score Estimator (TriEstimator) and the   *)
(* Calculator (TriCalculator) that owns one estimator per objective area.  *)
(*                                                                         *)
(* Python floats are modelled as fixed-point numbers: a real x is the      *)
(* integer x * Scale, and every float division rounds down to 1/Scale.     *)
(* Scores given in the pools below are whole points; Pts turns them into   *)
(* fixed-point values.                                                     *)
(***************************************************************************)
EXTENDS Integers, Sequences, FiniteSets, TLC

VARIABLES est, calc, last, conv

vars == <<est, calc, last, conv>>

----------------------------------------------------------------------------
(* Bounds of the model *)

\* resolution of the fixed-point reals (units per point)
Scale == 1000

\* longest list handed to set_historical_data
MaxLen == 2

----------------------------------------------------------------------------
(* Program constants *)

TotalQuestions == 45

RangeFloor == 300

RangeCeil == 1000

EssayMax == 1000

----------------------------------------------------------------------------
(* Fixed-point arithmetic *)

Pts(p) == p * Scale

\* the float literal num/den
Lit(num, den) == (num * Scale) \div den

FMul(a, b) == (a * b) \div Scale

FDiv(a, b) == (a * Scale) \div b

Min2(a, b) == IF a <= b THEN a ELSE b

Max2(a, b) == IF a >= b THEN a ELSE b

\* np.clip(x, lo, hi) = minimum(maximum(x, lo), hi)
Clip(x, lo, hi) == Min2(Max2(x, lo), hi)

RECURSIVE SumSeq(_)
SumSeq(s) == IF s = <<>> THEN 0 ELSE Head(s) + SumSeq(Tail(s))

RECURSIVE MinSeq(_)
MinSeq(s) == IF Len(s) = 1 THEN s[1] ELSE Min2(Head(s), MinSeq(Tail(s)))

RECURSIVE MaxSeq(_)
MaxSeq(s) == IF Len(s) = 1 THEN s[1] ELSE Max2(Head(s), MaxSeq(Tail(s)))

RECURSIVE Insert(_, _)
Insert(x, s) ==
    IF s = <<>> THEN <<x>>
    ELSE IF x <= Head(s) THEN <<x>> \o s
    ELSE <<Head(s)>> \o Insert(x, Tail(s))

RECURSIVE Sorted(_)
Sorted(s) == IF s = <<>> THEN <<>> ELSE Insert(Head(s), Sorted(Tail(s)))

\* np.mean
Mean(s) == SumSeq(s) \div Len(s)

\* np.median: the middle value, or the mean of the two middle values
Median(s) ==
    LET t == Sorted(s)
        n == Len(t)
    IN  IF n % 2 = 1 THEN t[(n + 1) \div 2]
        ELSE (t[n \div 2] + t[n \div 2 + 1]) \div 2

RECURSIVE Pow2(_)
Pow2(i) == IF i = 0 THEN 1 ELSE 2 * Pow2(i - 1)

\* the Taylor series of e^x for x >= 0, summed until the terms vanish
RECURSIVE ExpSeries(_, _, _, _)
ExpSeries(x, k, term, acc) ==
    IF term = 0 THEN acc
    ELSE ExpSeries(x, k + 1, (term * x) \div (k * Scale), acc + term)

\* np.exp
Exp(x) ==
    IF x >= 0 THEN ExpSeries(x, 1, Scale, 0)
    ELSE (Scale * Scale) \div ExpSeries(-x, 1, Scale, 0)

\* Newton's iteration for the integer square root of x, from the guess r
RECURSIVE SqrtIter(_, _)
SqrtIter(x, r) ==
    LET n == (r + x \div r) \div 2
    IN  IF n >= r THEN r ELSE SqrtIter(x, n)

\* np.sqrt
Sqrt(x) == IF x <= 0 THEN 0 ELSE SqrtIter(x * Scale, x * Scale)

\* stats.norm.ppf((1 + confidence) / 2) for a confidence of pct per cent:
\* the quantiles of the standard normal distribution at 0.9, 0.975 and 0.995
NormPpf(pct) ==
    CASE pct = 80 -> Lit(12816, 10000)
      [] pct = 95 -> Lit(19600, 10000)
      [] pct = 99 -> Lit(25758, 10000)

----------------------------------------------------------------------------
(* Values returned to the caller *)

None == <<>>

Some(v) == <<v>>

Returned(v) == [kind |-> "return", msg |-> "", val |-> v]

Raised(m) == [kind |-> "raise", msg |-> m, val |-> None]

MsgCorrectRange(total) ==
    "Correct answers must be between 0 and " \o ToString(total)

MsgSameLength == "correct_answers and scores must have same length"

MsgEssayRange == "Essay score must be between 0 and 1000"

\* the call returned one number
IsScoreResult(r) == r.kind = "return" /\ Len(r.val) = 1

----------------------------------------------------------------------------
(* TriEstimator *)

\* TriEstimator.__init__: population parameters, no personal calibration
TriEstimator(total, min_s, max_s, mean_s, std) ==
    [ total_questions |-> total,
      min_score |-> min_s,
      max_score |-> max_s,
      mean_score |-> mean_s,
      std_deviation |-> std,
      score_map |-> None,
      interpolator |-> FALSE,
      conversion_factor |-> None,
      has_history |-> FALSE,
      historical_correct_answers |-> <<>>,
      historical_scores |-> <<>>,
      historical_years |-> None ]

\* score / ca for every data point with ca > 0, in list order
RECURSIVE FactorsFrom(_, _, _)
FactorsFrom(cs, ss, i) ==
    IF i > Len(cs) THEN <<>>
    ELSE (IF cs[i] > 0 THEN <<ss[i] \div cs[i]>> ELSE <<>>)
         \o FactorsFrom(cs, ss, i + 1)

\* grouped[ca]: the scores paired with the count ca, in list order
RECURSIVE Grouped(_, _, _, _)
Grouped(cs, ss, ca, i) ==
    IF i > Len(cs) THEN <<>>
    ELSE (IF cs[i] = ca THEN <<ss[i]>> ELSE <<>>) \o Grouped(cs, ss, ca, i + 1)

\* ScoreMapOf keeping the last score of a count instead of the mean
ScoreMapOf_LastScore(cs, ss) ==
    [ca \in {cs[i] : i \in 1..Len(cs)} |->
        LET g == Grouped(cs, ss, ca, 1) IN g[Len(g)]]

\* the exact-match table: each count of the history to the mean of its scores
ScoreMapOf(cs, ss) ==
    [ca \in {cs[i] : i \in 1..Len(cs)} |-> Mean(Grouped(cs, ss, ca, 1))]

\* Calibrate without the branch that clears the factor, table and interpolator
Calibrate_NoReset(e, cs, ss, years) ==
    LET factors == FactorsFrom(cs, ss, 1)
        stored == [e EXCEPT !.has_history = TRUE,
                            !.historical_correct_answers = cs,
                            !.historical_scores = ss,
                            !.historical_years = years]
    IN  IF Len(factors) > 0
        THEN [stored EXCEPT !.conversion_factor = Some(Median(factors)),
                            !.score_map = Some(ScoreMapOf(cs, ss)),
                            !.interpolator = TRUE]
        ELSE stored

\* Calibrate with the mean of the factors as personal factor
Calibrate_MeanFactor(e, cs, ss, years) ==
    LET factors == FactorsFrom(cs, ss, 1)
        stored == [e EXCEPT !.has_history = TRUE,
                            !.historical_correct_answers = cs,
                            !.historical_scores = ss,
                            !.historical_years = years]
    IN  IF Len(factors) > 0
        THEN [stored EXCEPT !.conversion_factor = Some(Mean(factors)),
                            !.score_map = Some(ScoreMapOf(cs, ss)),
                            !.interpolator = TRUE]
        ELSE [stored EXCEPT !.conversion_factor = None,
                            !.score_map = None,
                            !.interpolator = FALSE]

\* Calibrate leaving the table of exact matches when no factor can be formed
Calibrate_KeepsTable(e, cs, ss, years) ==
    LET factors == FactorsFrom(cs, ss, 1)
        stored == [e EXCEPT !.has_history = TRUE,
                            !.historical_correct_answers = cs,
                            !.historical_scores = ss,
                            !.historical_years = years]
    IN  IF Len(factors) > 0
        THEN [stored EXCEPT !.conversion_factor = Some(Median(factors)),
                            !.score_map = Some(ScoreMapOf(cs, ss)),
                            !.interpolator = TRUE]
        ELSE [stored EXCEPT !.conversion_factor = None,
                            !.interpolator = FALSE]

\* the assignments of set_historical_data once the lists are accepted
Calibrate(e, cs, ss, years) ==
    LET factors == FactorsFrom(cs, ss, 1)
        stored == [e EXCEPT !.has_history = TRUE,
                            !.historical_correct_answers = cs,
                            !.historical_scores = ss,
                            !.historical_years = years]
    IN  IF Len(factors) > 0
        THEN [stored EXCEPT !.conversion_factor = Some(Median(factors)),
                            !.score_map = Some(ScoreMapOf(cs, ss)),
                            !.interpolator = TRUE]
        ELSE [stored EXCEPT !.conversion_factor = None,
                            !.score_map = None,
                            !.interpolator = FALSE]

\* SetHistoricalData storing the history before it compares the lengths
SetHistoricalData_StoreBeforeCheck(e, cs, ss, years) ==
    LET stored == [e EXCEPT !.has_history = TRUE,
                            !.historical_correct_answers = cs,
                            !.historical_scores = ss,
                            !.historical_years = years]
    IN  IF Len(cs) # Len(ss) THEN [est |-> stored, res |-> Raised(MsgSameLength)]
        ELSE IF Len(cs) < 2 THEN [est |-> e, res |-> Returned(None)]
        ELSE [est |-> Calibrate(e, cs, ss, years), res |-> Returned(None)]

\* SetHistoricalData accepting a single point
SetHistoricalData_MinOne(e, cs, ss, years) ==
    IF Len(cs) # Len(ss) THEN [est |-> e, res |-> Raised(MsgSameLength)]
    ELSE IF Len(cs) < 1 THEN [est |-> e, res |-> Returned(None)]
    ELSE [est |-> Calibrate(e, cs, ss, years), res |-> Returned(None)]

\* TriEstimator.set_historical_data: the estimator afterwards and the outcome
SetHistoricalData(e, cs, ss, years) ==
    IF Len(cs) # Len(ss) THEN [est |-> e, res |-> Raised(MsgSameLength)]
    ELSE IF Len(cs) < 2 THEN [est |-> e, res |-> Returned(None)]
    ELSE [est |-> Calibrate(e, cs, ss, years), res |-> Returned(None)]

\* Interpolator counting the answers missed instead of the correct ones
Interpolator_Descending(e, ca) == e.conversion_factor[1] * (e.total_questions - ca)

\* factor_interpolator: reads the conversion factor at the time of the call
Interpolator(e, ca) == e.conversion_factor[1] * ca

\* EstimateWithLogistic scaling by max_score instead of the score range
EstimateWithLogistic_MaxAsRange(e, c) ==
    LET proportion == FDiv(Pts(c), Pts(e.total_questions))
        z_score == FDiv(proportion - Lit(5, 10), Lit(15, 100))
        normalized_score == FDiv(Pts(1), Pts(1) + Exp(-z_score))
        score == e.min_score + FMul(e.max_score, normalized_score)
    IN  IF c = 0 THEN Max2(score, e.min_score)
        ELSE IF c = e.total_questions THEN Min2(score, e.max_score)
        ELSE score

\* EstimateWithLogistic with the sign of the exponent lost
EstimateWithLogistic_Mirrored(e, c) ==
    LET proportion == FDiv(Pts(c), Pts(e.total_questions))
        z_score == FDiv(proportion - Lit(5, 10), Lit(15, 100))
        score_range == e.max_score - e.min_score
        normalized_score == FDiv(Pts(1), Pts(1) + Exp(z_score))
        score == e.min_score + FMul(score_range, normalized_score)
    IN  IF c = 0 THEN Max2(score, e.min_score)
        ELSE IF c = e.total_questions THEN Min2(score, e.max_score)
        ELSE score

\* EstimateWithLogistic with the steepness 1.5 instead of 0.15
EstimateWithLogistic_Flat(e, c) ==
    LET proportion == FDiv(Pts(c), Pts(e.total_questions))
        z_score == FDiv(proportion - Lit(5, 10), Lit(15, 10))
        score_range == e.max_score - e.min_score
        normalized_score == FDiv(Pts(1), Pts(1) + Exp(-z_score))
        score == e.min_score + FMul(score_range, normalized_score)
    IN  IF c = 0 THEN Max2(score, e.min_score)
        ELSE IF c = e.total_questions THEN Min2(score, e.max_score)
        ELSE score

\* TriEstimator._estimate_with_logistic
EstimateWithLogistic(e, c) ==
    LET proportion == FDiv(Pts(c), Pts(e.total_questions))
        z_score == FDiv(proportion - Lit(5, 10), Lit(15, 100))
        score_range == e.max_score - e.min_score
        normalized_score == FDiv(Pts(1), Pts(1) + Exp(-z_score))
        score == e.min_score + FMul(score_range, normalized_score)
    IN  IF c = 0 THEN Max2(score, e.min_score)
        ELSE IF c = e.total_questions THEN Min2(score, e.max_score)
        ELSE score

\* TriEstimator._estimate_with_linear
EstimateWithLinear(e, c) ==
    LET proportion == FDiv(Pts(c), Pts(e.total_questions))
        score_range == e.max_score - e.min_score
    IN  e.min_score + FMul(proportion, score_range)

\* EstimateScore validating the count only on the way to the population model
EstimateScore_LateRangeCheck(e, c, use_logistic) ==
    IF e.score_map # None /\ c \in DOMAIN e.score_map[1]
    THEN Returned(Some(e.score_map[1][c]))
    ELSE IF e.interpolator
    THEN Returned(Some(Interpolator(e, c)))
    ELSE IF c < 0 \/ c > e.total_questions
    THEN Raised(MsgCorrectRange(e.total_questions))
    ELSE IF use_logistic
    THEN Returned(Some(EstimateWithLogistic(e, c)))
    ELSE Returned(Some(EstimateWithLinear(e, c)))

\* TriEstimator.estimate_score
EstimateScore(e, c, use_logistic) ==
    IF c < 0 \/ c > e.total_questions
    THEN Raised(MsgCorrectRange(e.total_questions))
    ELSE IF e.score_map # None /\ c \in DOMAIN e.score_map[1]
    THEN Returned(Some(e.score_map[1][c]))
    ELSE IF e.interpolator
    THEN Returned(Some(Interpolator(e, c)))
    ELSE IF use_logistic
    THEN Returned(Some(EstimateWithLogistic(e, c)))
    ELSE Returned(Some(EstimateWithLinear(e, c)))

\* year-over-year ratios scores[i] / scores[i-1] where scores[i-1] > 0
RECURSIVE GrowthRates(_, _)
GrowthRates(scores, i) ==
    IF i > Len(scores) THEN <<>>
    ELSE (IF scores[i - 1] > 0 THEN <<FDiv(scores[i], scores[i - 1])>> ELSE <<>>)
         \o GrowthRates(scores, i + 1)

\* np.average(growth_rates, weights = [2 ** i])
RECURSIVE WeightedSum(_, _)
WeightedSum(rates, i) ==
    IF i > Len(rates) THEN 0
    ELSE rates[i] * Pow2(i - 1) + WeightedSum(rates, i + 1)

\* CalculateGrowthFactor returning the weighted average as it is
CalculateGrowthFactor_Unclipped(e) ==
    IF ~e.has_history \/ Len(e.historical_scores) < 2 THEN Pts(1)
    ELSE LET growth_rates == GrowthRates(e.historical_scores, 2)
         IN  IF growth_rates = <<>> THEN Pts(1)
             ELSE WeightedSum(growth_rates, 1) \div (Pow2(Len(growth_rates)) - 1)

\* TriEstimator._calculate_growth_factor
CalculateGrowthFactor(e) ==
    IF ~e.has_history \/ Len(e.historical_scores) < 2 THEN Pts(1)
    ELSE LET growth_rates == GrowthRates(e.historical_scores, 2)
         IN  IF growth_rates = <<>> THEN Pts(1)
             ELSE Clip(WeightedSum(growth_rates, 1)
                           \div (Pow2(Len(growth_rates)) - 1),
                       Lit(9, 10), Lit(115, 100))

\* the residuals hist_score - interpolator(hist_ca) of the stored history
PredictionErrors(e) ==
    [i \in 1..Len(e.historical_correct_answers) |->
        e.historical_scores[i] - Interpolator(e, e.historical_correct_answers[i])]

\* EstimateScoreRange without the final clip of the calculated score
EstimateScoreRange_UnclippedCalculated(e, c) ==
    IF ~e.interpolator THEN Returned(None)
    ELSE IF ~e.has_history \/ Len(e.historical_correct_answers) < 2
    THEN Returned(None)
    ELSE
    LET base_score == Interpolator(e, c)
        errors == PredictionErrors(e)
        pessimistic_error == (MinSeq(errors) + Median(errors)) \div 2
        optimistic_error == FMul(Lit(9, 10), MaxSeq(errors))
        p0 == Clip(base_score + pessimistic_error, Pts(RangeFloor), Pts(RangeCeil))
        o0 == Clip(base_score + optimistic_error, Pts(RangeFloor), Pts(RangeCeil))
        pessimistic == IF p0 > o0 THEN o0 ELSE p0
        optimistic == IF p0 > o0 THEN p0 ELSE o0
        base_calculated == (pessimistic + optimistic) \div 2
    IN  Returned(<<pessimistic,
                   FMul(base_calculated, CalculateGrowthFactor(e)),
                   optimistic>>)

\* EstimateScoreRange answering the floor of the band for a stored history
\* that gave no factor
EstimateScoreRange_FloorWithoutFactor(e, c) ==
    IF ~e.has_history \/ Len(e.historical_correct_answers) < 2
    THEN Returned(None)
    ELSE IF ~e.interpolator
    THEN Returned(<<Pts(RangeFloor), Pts(RangeFloor), Pts(RangeFloor)>>)
    ELSE
    LET base_score == Interpolator(e, c)
        errors == PredictionErrors(e)
        pessimistic_error == (MinSeq(errors) + Median(errors)) \div 2
        optimistic_error == FMul(Lit(9, 10), MaxSeq(errors))
        p0 == Clip(base_score + pessimistic_error, Pts(RangeFloor), Pts(RangeCeil))
        o0 == Clip(base_score + optimistic_error, Pts(RangeFloor), Pts(RangeCeil))
        pessimistic == IF p0 > o0 THEN o0 ELSE p0
        optimistic == IF p0 > o0 THEN p0 ELSE o0
        base_calculated == (pessimistic + optimistic) \div 2
        calculated == Clip(FMul(base_calculated, CalculateGrowthFactor(e)),
                           pessimistic, optimistic)
    IN  Returned(<<pessimistic, calculated, optimistic>>)

\* TriEstimator.estimate_score_range
EstimateScoreRange(e, c) ==
    IF ~e.interpolator THEN Returned(None)
    ELSE IF ~e.has_history \/ Len(e.historical_correct_answers) < 2
    THEN Returned(None)
    ELSE
    LET base_score == Interpolator(e, c)
        errors == PredictionErrors(e)
        pessimistic_error == (MinSeq(errors) + Median(errors)) \div 2
        optimistic_error == FMul(Lit(9, 10), MaxSeq(errors))
        p0 == Clip(base_score + pessimistic_error, Pts(RangeFloor), Pts(RangeCeil))
        o0 == Clip(base_score + optimistic_error, Pts(RangeFloor), Pts(RangeCeil))
        pessimistic == IF p0 > o0 THEN o0 ELSE p0
        optimistic == IF p0 > o0 THEN p0 ELSE o0
        base_calculated == (pessimistic + optimistic) \div 2
        calculated == Clip(FMul(base_calculated, CalculateGrowthFactor(e)),
                           pessimistic, optimistic)
    IN  Returned(<<pessimistic, calculated, optimistic>>)

\* stats.norm.ppf(correct_answers / total_questions): the quantiles of the
\* standard normal distribution at 10/45, 15/45, 19/45 and 20/45
NormPpfOfProportion(c, total) ==
    CASE c = 10 /\ total = TotalQuestions -> Lit(0 - 76471, 100000)
      [] c = 15 /\ total = TotalQuestions -> Lit(0 - 43073, 100000)
      [] c = 19 /\ total = TotalQuestions -> Lit(0 - 19621, 100000)
      [] c = 20 /\ total = TotalQuestions -> Lit(0 - 13971, 100000)

\* TriEstimator.estimate_proficiency
EstimateProficiency(e, c) ==
    LET proportion == FDiv(Pts(c), Pts(e.total_questions))
    IN  IF proportion <= Lit(1, 100) THEN Returned(Some(0 - Pts(3)))
        ELSE IF proportion >= Lit(99, 100) THEN Returned(Some(Pts(3)))
        ELSE Returned(Some(NormPpfOfProportion(c, e.total_questions)))

\* the margin of error of get_confidence_interval at pct per cent
MarginOfError(e, pct) ==
    LET standard_error == FDiv(e.std_deviation, Sqrt(Pts(e.total_questions)))
    IN  FMul(NormPpf(pct), standard_error)

\* GetConfidenceInterval always using the default level of 95 per cent
GetConfidenceInterval_DefaultLevel(e, c, pct) ==
    LET r == EstimateScore(e, c, TRUE)
    IN  IF r.kind = "raise" THEN r
        ELSE LET score == r.val[1]
                 margin_of_error == MarginOfError(e, 95)
             IN  Returned(<<Max2(e.min_score, score - margin_of_error),
                            Min2(e.max_score, score + margin_of_error)>>)

\* TriEstimator.get_confidence_interval at a confidence of pct per cent
GetConfidenceInterval(e, c, pct) ==
    LET r == EstimateScore(e, c, TRUE)
    IN  IF r.kind = "raise" THEN r
        ELSE LET score == r.val[1]
                 margin_of_error == MarginOfError(e, pct)
                 lower_bound == Max2(e.min_score, score - margin_of_error)
                 upper_bound == Min2(e.max_score, score + margin_of_error)
             IN  Returned(<<lower_bound, upper_bound>>)

----------------------------------------------------------------------------
(* TriCalculator *)

ObjectiveAreas == {"mathematics", "languages", "natural_sciences", "human_sciences"}

Essay == "essay"

\* the order in which calculate_score visits the areas
AreaOrder == <<"mathematics", "languages", "natural_sciences", "human_sciences">>

\* range(2020, 2025)
WindowYears == 2020..2024

ReferenceYear == 2023

MsgNegativeCount == "Number of correct answers cannot be negative"

MsgExceedsTotal == "Correct answers cannot exceed total questions"

MsgScoreRange == "Score must be between 0 and 1000"

MsgEssayNotCalculated == "Essay score must be provided directly, not calculated"

MsgNoEssayInterval == "Confidence interval not applicable for essay"

MsgInvalidArea == "Invalid area type"

\* HistoricalDataCollector.load_inep_statistics: the year's record, a mapping
\* from area names to (min, max, mean, std); empty when there is no file
LoadInepStatistics(stats, year) ==
    IF year \in DOMAIN stats THEN stats[year] ELSE <<>>

RECURSIVE SumStat(_, _, _, _)
SumStat(stats, years, area, k) ==
    IF years = {} THEN 0
    ELSE LET y == CHOOSE x \in years : TRUE
         IN  stats[y][area][k] + SumStat(stats, years \ {y}, area, k)

\* TriCalculator._calculate_default_params_from_inep
CalculateDefaultParamsFromInep(stats) ==
    [a \in ObjectiveAreas |->
        LET years == { y \in WindowYears : a \in DOMAIN LoadInepStatistics(stats, y) }
            count == Cardinality(years)
        IN  IF count > 0
            THEN [k \in 1..4 |-> SumStat(stats, years, a, k) \div count]
            ELSE <<Pts(300), Pts(900), Pts(500), Pts(100)>>]

\* LoadInepParameters giving an area the reference year lacks the fixed
\* defaults at once
LoadInepParameters_NoAverageForArea(stats, year) ==
    LET year_stats == LoadInepStatistics(stats, year)
    IN  IF year_stats = <<>> THEN CalculateDefaultParamsFromInep(stats)
        ELSE [a \in ObjectiveAreas |->
                IF a \in DOMAIN year_stats THEN year_stats[a]
                ELSE <<Pts(300), Pts(900), Pts(500), Pts(100)>>]

\* TriCalculator._load_inep_parameters
LoadInepParameters(stats, year) ==
    LET year_stats == LoadInepStatistics(stats, year)
    IN  IF year_stats = <<>> THEN CalculateDefaultParamsFromInep(stats)
        ELSE [a \in ObjectiveAreas |->
                IF a \in DOMAIN year_stats THEN year_stats[a]
                ELSE CalculateDefaultParamsFromInep(stats)[a]]

\* TriCalculator.__init__ without custom parameters; stats is what the
\* statistics files hold
TriCalculator(stats, use_inep_data, reference_year) ==
    LET params == IF use_inep_data THEN LoadInepParameters(stats, reference_year)
                  ELSE CalculateDefaultParamsFromInep(stats)
    IN  [ total_questions |-> TotalQuestions,
          use_inep_data |-> use_inep_data,
          reference_year |-> reference_year,
          stats |-> stats,
          estimators |->
            [a \in ObjectiveAreas |->
                TriEstimator(TotalQuestions, params[a][1], params[a][2],
                             params[a][3], params[a][4])] ]

\* CalibrateWithUserData with one estimator object shared by the four areas
CalibrateWithUserData_SharedEstimator(k, area, cs, ss, years) ==
    IF area = Essay THEN [calc |-> k, res |-> Returned(None)]
    ELSE IF area \notin DOMAIN k.estimators THEN [calc |-> k, res |-> Returned(None)]
    ELSE IF Len(cs) > 0 /\ Len(ss) > 0
    THEN LET r == SetHistoricalData(k.estimators[area], cs, ss, years)
         IN  [calc |-> [k EXCEPT !.estimators = [a \in ObjectiveAreas |-> r.est]],
              res |-> r.res]
    ELSE [calc |-> k, res |-> Returned(None)]

\* TriCalculator.calibrate_with_user_data: the calculator afterwards and the
\* outcome
CalibrateWithUserData(k, area, cs, ss, years) ==
    IF area = Essay THEN [calc |-> k, res |-> Returned(None)]
    ELSE IF area \notin DOMAIN k.estimators THEN [calc |-> k, res |-> Returned(None)]
    ELSE IF Len(cs) > 0 /\ Len(ss) > 0
    THEN LET r == SetHistoricalData(k.estimators[area], cs, ss, years)
         IN  [calc |-> [k EXCEPT !.estimators[area] = r.est], res |-> r.res]
    ELSE [calc |-> k, res |-> Returned(None)]

\* ExamArea.__post_init__: the message of the error raised, if any
ExamAreaError(total, c) ==
    IF c < 0 THEN Some(MsgNegativeCount)
    ELSE IF c > total THEN Some(MsgExceedsTotal)
    ELSE None

\* the first element of the sequence s that is not None, if any
RECURSIVE FirstSome(_, _)
FirstSome(s, i) ==
    IF i > Len(s) THEN None
    ELSE IF s[i] # None THEN s[i]
    ELSE FirstSome(s, i + 1)

\* ExamResult.__post_init__: whether the five scores are accepted
ExamResultAccepts(scores, essay) ==
    /\ \A a \in ObjectiveAreas : 0 <= scores[a] /\ scores[a] <= Pts(1000)
    /\ 0 <= essay /\ essay <= Pts(1000)

\* CalculateScore validating the essay score after the areas are built
CalculateScore_EssayCheckedLast(k, counts, essay) ==
    LET area_error ==
            FirstSome([i \in 1..4 |-> ExamAreaError(k.total_questions,
                                                    counts[AreaOrder[i]])], 1)
        estimates == [a \in ObjectiveAreas |->
                        EstimateScore(k.estimators[a], counts[a], TRUE)]
        scores == [a \in ObjectiveAreas |-> estimates[a].val[1]]
        ranges == [a \in ObjectiveAreas |->
                        EstimateScoreRange(k.estimators[a], counts[a]).val]
    IN  IF area_error # None THEN Raised(area_error[1])
        ELSE IF essay < 0 \/ essay > Pts(EssayMax) THEN Raised(MsgEssayRange)
        ELSE IF ~ExamResultAccepts(scores, essay) THEN Raised(MsgScoreRange)
        ELSE Returned(Some([scores |-> scores, essay_score |-> essay,
                            ranges |-> ranges]))

\* TriCalculator.calculate_score: counts maps each objective area to its count
CalculateScore(k, counts, essay) ==
    IF essay < 0 \/ essay > Pts(EssayMax) THEN Raised(MsgEssayRange)
    ELSE
    LET area_error ==
            FirstSome([i \in 1..4 |-> ExamAreaError(k.total_questions,
                                                    counts[AreaOrder[i]])], 1)
        estimates == [a \in ObjectiveAreas |->
                        EstimateScore(k.estimators[a], counts[a], TRUE)]
        estimate_error ==
            FirstSome([i \in 1..4 |->
                        IF estimates[AreaOrder[i]].kind = "raise"
                        THEN Some(estimates[AreaOrder[i]].msg) ELSE None], 1)
        scores == [a \in ObjectiveAreas |-> estimates[a].val[1]]
        ranges == [a \in ObjectiveAreas |->
                        EstimateScoreRange(k.estimators[a], counts[a]).val]
    IN  IF area_error # None THEN Raised(area_error[1])
        ELSE IF estimate_error # None THEN Raised(estimate_error[1])
        ELSE IF ~ExamResultAccepts(scores, essay) THEN Raised(MsgScoreRange)
        ELSE Returned(Some([scores |-> scores, essay_score |-> essay,
                            ranges |-> ranges]))

\* CalculateAreaScore asking the mathematics estimator whatever the area
CalculateAreaScore_AlwaysMathematics(k, area, c) ==
    IF area = Essay THEN Raised(MsgEssayNotCalculated)
    ELSE IF area \notin DOMAIN k.estimators THEN Raised(MsgInvalidArea)
    ELSE EstimateScore(k.estimators["mathematics"], c, TRUE)

\* TriCalculator.calculate_area_score
CalculateAreaScore(k, area, c) ==
    IF area = Essay THEN Raised(MsgEssayNotCalculated)
    ELSE IF area \notin DOMAIN k.estimators THEN Raised(MsgInvalidArea)
    ELSE EstimateScore(k.estimators[area], c, TRUE)

\* TriCalculator.get_confidence_interval
AreaConfidenceInterval(k, area, c, pct) ==
    IF area = Essay THEN Raised(MsgNoEssayInterval)
    ELSE IF area \notin DOMAIN k.estimators THEN Raised(MsgInvalidArea)
    ELSE GetConfidenceInterval(k.estimators[area], c, pct)

----------------------------------------------------------------------------
(* Inputs *)

\* population parameters (min, max, mean, std) an estimator is built with:
\* the defaults, the mathematics sample statistics, a single-point range, an
\* inverted range, a range narrower than the standard deviation and a mean
\* close to the minimum
EstimatorParams ==
    { <<300, 900, 500, 100>>, <<300, 985, 520, 120>>,
      <<500, 500, 500, 0>>, <<900, 300, 500, 100>>, <<480, 520, 500, 100>>,
      <<300, 900, 310, 100>> }

DefaultParams == <<300, 900, 500, 100>>

NewEstimator(p) ==
    TriEstimator(TotalQuestions, Pts(p[1]), Pts(p[2]), Pts(p[3]), Pts(p[4]))

\* (correct answers, official score) points a history is made of
HistPoints == { <<0, 350>>, <<10, 400>>, <<10, 500>>, <<20, 700>>, <<30, 600>> }

PointLists == UNION { [1..n -> HistPoints] : n \in 0..MaxLen }

CountsOf(pts) == [i \in 1..Len(pts) |-> pts[i][1]]

ScoresOf(pts) == [i \in 1..Len(pts) |-> Pts(pts[i][2])]

Repeat(x, n) == [i \in 1..n |-> x]

\* the years of n previous exams
YearsOf(n) == [i \in 1..n |-> 2020 + i]

\* histories of three years: three factors with the median apart from the
\* mean, and two factors after a year without a correct answer; a history
\* whose first score is 0
LongerLists ==
    { <<(<<10, 20, 30>>), (<<Pts(400), Pts(700), Pts(600)>>)>>,
      <<(<<0, 10, 20>>), (<<Pts(350), Pts(400), Pts(700)>>)>>,
      <<(<<10, 20>>), (<<Pts(0), Pts(700)>>)>> }

\* the two lists of a call: those of a list of points, or lists of different
\* lengths (the contents of such lists are never read)
CallLists ==
    { <<CountsOf(pts), ScoresOf(pts)>> : pts \in PointLists }
    \cup LongerLists
    \cup { <<Repeat(10, n + 1), Repeat(Pts(400), n)>> : n \in {0, 2} }
    \cup { <<Repeat(10, n), Repeat(Pts(400), n + 1)>> : n \in {0, 2} }

\* calls with years: the two years of the two points, the same two
\* (correct answers, score, year) triples with the later year first, and the
\* years of all three previous exams with the two points of the area that
\* has results for two of them
ListsWithYears ==
    { <<(<<10, 20>>), (<<Pts(400), Pts(700)>>), YearsOf(2)>>,
      <<(<<20, 10>>), (<<Pts(700), Pts(400)>>), (<<YearsOf(2)[2], YearsOf(2)[1]>>)>>,
      <<(<<10, 20>>), (<<Pts(400), Pts(700)>>), YearsOf(3)>> }

\* every valid count and one beyond each end
AllCounts == (0 - 1)..(TotalQuestions + 1)

\* the counts asked of a calibrated estimator: the ends, the counts of the
\* history and counts between them
QueryCounts == { 0 - 1, 0, 10, 15, 19, 20, TotalQuestions, TotalQuestions + 1 }

\* the confidence levels asked for, in per cent
ConfidenceLevels == { 80, 95, 99 }

NoCall == [op |-> "none", area |-> "", c |-> 0, counts |-> <<>>, essay |-> 0,
           confidence |-> 0, cs |-> <<>>, ss |-> <<>>, years |-> None,
           calibrated_before |-> FALSE, year |-> 0, flag |-> FALSE,
           res |-> Returned(None)]

----------------------------------------------------------------------------
(* The calls made on a stand-alone estimator *)

\* est.set_historical_data(cs, ss)
DoSetHistoricalData(lists) ==
    LET r == SetHistoricalData(est, lists[1], lists[2], None)
    IN  /\ est' = r.est
        /\ last' = [NoCall EXCEPT !.op = "set_historical_data",
                                  !.cs = lists[1], !.ss = lists[2],
                                  !.calibrated_before = est.interpolator,
                                  !.res = r.res]
        /\ UNCHANGED <<calc, conv>>

\* est.set_historical_data(cs, ss, years)
DoSetHistoricalDataWithYears(call) ==
    LET r == SetHistoricalData(est, call[1], call[2], Some(call[3]))
    IN  /\ est' = r.est
        /\ last' = [NoCall EXCEPT !.op = "set_historical_data",
                                  !.cs = call[1], !.ss = call[2],
                                  !.years = Some(call[3]),
                                  !.calibrated_before = est.interpolator,
                                  !.res = r.res]
        /\ UNCHANGED <<calc, conv>>

\* est.estimate_score(c, use_logistic)
DoEstimateScore(c, use_logistic) ==
    /\ last' = [NoCall EXCEPT !.op = IF use_logistic THEN "estimate_score"
                                     ELSE "estimate_score_linear",
                              !.c = c,
                              !.calibrated_before = est.interpolator,
                              !.res = EstimateScore(est, c, use_logistic)]
    /\ UNCHANGED <<est, calc, conv>>

\* est.estimate_score_range(c)
DoEstimateScoreRange(c) ==
    /\ last' = [NoCall EXCEPT !.op = "estimate_score_range", !.c = c,
                              !.calibrated_before = est.interpolator,
                              !.res = EstimateScoreRange(est, c)]
    /\ UNCHANGED <<est, calc, conv>>

\* est.get_confidence_interval(c, pct / 100)
DoGetConfidenceInterval(c, pct) ==
    /\ last' = [NoCall EXCEPT !.op = "get_confidence_interval", !.c = c,
                              !.confidence = pct,
                              !.calibrated_before = est.interpolator,
                              !.res = GetConfidenceInterval(est, c, pct)]
    /\ UNCHANGED <<est, calc, conv>>

\* est.estimate_proficiency(c)
DoEstimateProficiency(c) ==
    /\ last' = [NoCall EXCEPT !.op = "estimate_proficiency", !.c = c,
                              !.calibrated_before = est.interpolator,
                              !.res = EstimateProficiency(est, c)]
    /\ UNCHANGED <<est, calc, conv>>

----------------------------------------------------------------------------
(* An estimator with the default parameters, calibrated and queried *)

Init ==
    /\ est = NewEstimator(DefaultParams)
    /\ calc = <<>>
    /\ last = NoCall
    /\ conv = <<>>

Next ==
    \/ \E lists \in CallLists : DoSetHistoricalData(lists)
    \/ \E call \in ListsWithYears : DoSetHistoricalDataWithYears(call)
    \/ \E c \in QueryCounts : DoEstimateScore(c, TRUE)
    \/ \E c \in QueryCounts : DoEstimateScoreRange(c)
    \/ \E c \in QueryCounts : DoGetConfidenceInterval(c, 95)
    \/ \E c \in QueryCounts : DoEstimateProficiency(c)

Spec == Init /\ [][Next]_vars

----------------------------------------------------------------------------
(* Estimators of any parameters on which no calibration becomes active *)

\* the calls that leave no calibration active: the lists are rejected, ignored,
\* or hold no count greater than 0
InactiveLists ==
    { l \in CallLists : \/ Len(l[1]) # Len(l[2])
                        \/ Len(l[1]) < 2
                        \/ \A i \in 1..Len(l[1]) : l[1][i] <= 0 }

InitPopulation ==
    /\ est \in { NewEstimator(p) : p \in EstimatorParams }
    /\ calc = <<>>
    /\ last = NoCall
    /\ conv = <<>>

NextPopulation ==
    \/ \E lists \in InactiveLists : DoSetHistoricalData(lists)
    \/ \E c \in AllCounts, use_logistic \in BOOLEAN : DoEstimateScore(c, use_logistic)
    \/ \E c \in AllCounts : DoEstimateScoreRange(c)

SpecPopulation == InitPopulation /\ [][NextPopulation]_vars

----------------------------------------------------------------------------
(* A calculator built from the statistics files, calibrated and queried *)

MathStats == <<Pts(300), Pts(985), Pts(520), Pts(120)>>

LangStats == <<Pts(300), Pts(830), Pts(520), Pts(95)>>

NatStats == <<Pts(300), Pts(900), Pts(490), Pts(110)>>

HumStats == <<Pts(300), Pts(875), Pts(510), Pts(100)>>

AllAreaStats ==
    [a \in ObjectiveAreas |->
        CASE a = "mathematics" -> MathStats
          [] a = "languages" -> LangStats
          [] a = "natural_sciences" -> NatStats
          [] a = "human_sciences" -> HumStats]

\* no statistics file at all
StatsNone == <<>>

\* no file for the reference year, one for another year of the window
StatsWindow == (2020 :> AllAreaStats)

\* the reference year's file lacks three areas: languages is in two other
\* files, natural sciences in one, human sciences in none; mathematics is in
\* another file too
StatsPartial ==
    (ReferenceYear :> ("mathematics" :> MathStats))
    @@ (2020 :> ("languages" :> LangStats @@ "natural_sciences" :> NatStats))
    @@ (2021 :> ("languages" :> HumStats @@ "mathematics" :> NatStats))

\* the ways the calculator is constructed: (files, use_inep_data)
Constructions ==
    { <<StatsNone, TRUE>>, <<StatsWindow, TRUE>>,
      <<StatsPartial, TRUE>>, <<StatsPartial, FALSE>> }

\* the (correct answers, scores) lists of the user's previous years
UserHistories ==
    { <<(<<10, 20>>), (<<Pts(400), Pts(700)>>)>>,
      <<(<<0, 0>>), (<<Pts(350), Pts(350)>>)>>,
      <<(<<10>>), (<<Pts(400)>>)>>,
      <<(<<10, 10>>), (<<Pts(400)>>)>>,
      <<(<<>>), (<<Pts(400)>>)>> }

CountsFor(m, l, n, h) ==
    ("mathematics" :> m) @@ ("languages" :> l)
    @@ ("natural_sciences" :> n) @@ ("human_sciences" :> h)

\* the counts handed to calculate_score
CountChoices ==
    { CountsFor(0, 0, 0, 0), CountsFor(1, 20, 10, 15),
      CountsFor(35, 40, 38, 42), CountsFor(45, 45, 45, 45),
      CountsFor(TotalQuestions + 1, 0 - 1, 10, 15) }

\* the areas the user has previous results for, and the essay
CalibratedAreas == { "mathematics", "languages", "natural_sciences", Essay }

\* the counts asked of one area
AreaCounts == { 0 - 1, 20, 35, TotalQuestions + 1 }

EssayChoices == { Pts(0 - 1), Pts(0), Pts(1000), Pts(1001) }

\* calc.calibrate_with_user_data(area, cs, ss, years)
DoCalibrateWithUserData(area, h) ==
    LET years == Some(YearsOf(Len(h[1])))
        r == CalibrateWithUserData(calc, area, h[1], h[2], years)
    IN  /\ calc' = r.calc
        /\ last' = [NoCall EXCEPT !.op = "calibrate_with_user_data",
                                  !.area = area,
                                  !.cs = h[1], !.ss = h[2], !.years = years,
                                  !.res = r.res]
        /\ UNCHANGED <<est, conv>>

\* calc.calculate_score(mathematics, languages, natural_sciences,
\* human_sciences, essay_score)
DoCalculateScore(counts, essay) ==
    /\ last' = [NoCall EXCEPT !.op = "calculate_score",
                              !.counts = counts, !.essay = essay,
                              !.res = CalculateScore(calc, counts, essay)]
    /\ UNCHANGED <<est, calc, conv>>

\* DoCalculateAreaScore keeping the estimate as the area's mean score
DoCalculateAreaScore_KeepsEstimate(area, c) ==
    LET r == CalculateAreaScore(calc, area, c)
    IN  /\ last' = [NoCall EXCEPT !.op = "calculate_area_score",
                                  !.area = area, !.c = c, !.res = r]
        /\ calc' = IF IsScoreResult(r)
                   THEN [calc EXCEPT !.estimators[area].mean_score = r.val[1]]
                   ELSE calc
        /\ UNCHANGED <<est, conv>>

\* calc.calculate_area_score(area, c)
DoCalculateAreaScore(area, c) ==
    /\ last' = [NoCall EXCEPT !.op = "calculate_area_score",
                              !.area = area, !.c = c,
                              !.res = CalculateAreaScore(calc, area, c)]
    /\ UNCHANGED <<est, calc, conv>>

\* calc.get_confidence_interval(area, c, pct / 100)
DoAreaConfidenceInterval(area, c, pct) ==
    /\ last' = [NoCall EXCEPT !.op = "get_confidence_interval",
                              !.area = area, !.c = c, !.confidence = pct,
                              !.res = AreaConfidenceInterval(calc, area, c, pct)]
    /\ UNCHANGED <<est, calc, conv>>

InitCalc ==
    /\ est = NewEstimator(DefaultParams)
    /\ calc \in { TriCalculator(k[1], k[2], ReferenceYear) : k \in Constructions }
    /\ last = NoCall
    /\ conv = <<>>

NextCalc ==
    \/ \E area \in CalibratedAreas, h \in UserHistories :
            DoCalibrateWithUserData(area, h)
    \/ \E counts \in CountChoices, essay \in EssayChoices :
            DoCalculateScore(counts, essay)
    \/ \E area \in ObjectiveAreas \cup {Essay}, c \in AreaCounts :
            DoCalculateAreaScore(area, c)
    \/ \E area \in ObjectiveAreas \cup {Essay}, c \in AreaCounts :
            DoAreaConfidenceInterval(area, c, 95)

SpecCalc == InitCalc /\ [][NextCalc]_vars

----------------------------------------------------------------------------
(* Estimators of any parameters, calibrated and asked for intervals *)

InitInterval ==
    /\ est \in { NewEstimator(p) : p \in EstimatorParams }
    /\ calc = <<>>
    /\ last = NoCall
    /\ conv = <<>>

NextInterval ==
    \/ \E h \in UserHistories : DoSetHistoricalData(h)
    \/ \E c \in AllCounts, pct \in ConfidenceLevels : DoGetConfidenceInterval(c, pct)

SpecInterval == InitInterval /\ [][NextInterval]_vars

----------------------------------------------------------------------------
(* ConversionFactorsCalculator (conversion_factors.py)

   global_factors and user_factors are mappings from area names to mappings
   from years to factors; an area or a year without an entry is outside the
   domain. *)

\* dataclass YearFactor
YearFactor(year, area, min_factor, max_factor, mean_factor) ==
    [ year |-> year,
      area |-> area,
      global_min_factor |-> min_factor,
      global_max_factor |-> max_factor,
      global_mean_factor |-> mean_factor,
      adjusted_factor |-> None,
      confidence |-> Pts(1) ]

\* ConversionFactorsCalculator.__init__
ConversionFactorsCalculator ==
    [ global_factors |-> <<>>, user_factors |-> <<>> ]

\* MicrodataProcessor.load_correct_answers_stats for a year whose file
\* exists: the file's record, a mapping from area names to the statistics of
\* the correct answers. The estimate made of the score statistics when the
\* file is missing is left out: every year with a score statistics file has
\* a correct answers file here, and no other year is asked for.
LoadCorrectAnswersStats(ca_files, year) == ca_files[year]

\* dict.get(key, default)
GetOr(d, key, default) == IF key \in DOMAIN d THEN d[key] ELSE default

\* ConversionFactorsCalculator.calculate_global_factors; files is the pair
\* (score statistics files, correct answers statistics files)
CalculateGlobalFactors(files, area, years) ==
    LET with_both ==
            { y \in years : /\ area \in DOMAIN LoadInepStatistics(files[1], y)
                            /\ area \in DOMAIN LoadCorrectAnswersStats(files[2], y) }
    IN  [ y \in with_both |->
            LET scores == LoadInepStatistics(files[1], y)[area]
                correct_answers == LoadCorrectAnswersStats(files[2], y)[area]
                mean_factor == IF correct_answers.mean > 0
                               THEN FDiv(scores[3], correct_answers.mean) ELSE 0
                min_ca == Max2(GetOr(correct_answers.percentiles, "25", Pts(5)), Pts(5))
                min_factor == IF min_ca > 0 THEN FDiv(scores[1], min_ca) ELSE 0
                max_ca == GetOr(correct_answers.percentiles, "90", correct_answers.max)
                max_factor == IF max_ca > 0 THEN FDiv(scores[2], max_ca) ELSE 0
            IN  YearFactor(y, area, min_factor, max_factor, mean_factor) ]

\* the years of a list
YearSet(years) == { years[i] : i \in 1..Len(years) }

\* ConversionFactorsCalculator.initialize_area: years is a list or None
InitializeArea(cv, files, area, years) ==
    LET ys == IF years = None THEN 2004..2024 ELSE YearSet(years[1])
    IN  [cv EXCEPT !.global_factors =
            (area :> CalculateGlobalFactors(files, area, ys)) @@ cv.global_factors]

\* ConversionFactorsCalculator.calculate_user_factors: a later entry of the
\* lists replaces an earlier one of the same year
RECURSIVE UserFactorsFrom(_, _, _, _)
UserFactorsFrom(cs, ss, ys, i) ==
    IF i = 0 THEN <<>>
    ELSE IF cs[i] > 0
         THEN (ys[i] :> (ss[i] \div cs[i])) @@ UserFactorsFrom(cs, ss, ys, i - 1)
         ELSE UserFactorsFrom(cs, ss, ys, i - 1)

CalculateUserFactors(cs, ss, ys) ==
    IF Len(cs) # Len(ss) \/ Len(ss) # Len(ys) THEN <<>>
    ELSE UserFactorsFrom(cs, ss, ys, Len(cs))

RECURSIVE SumOver(_, _)
SumOver(f, keys) ==
    IF keys = {} THEN 0
    ELSE LET k == CHOOSE x \in keys : TRUE
         IN  f[k] + SumOver(f, keys \ {k})

\* ConversionFactorsCalculator.adjust_factors_with_user_data
AdjustFactorsWithUserData(cv, area, cs, ss, ys) ==
    LET user_factors == CalculateUserFactors(cs, ss, ys)
        stored == [cv EXCEPT !.user_factors =
                      (area :> (user_factors @@ GetOr(cv.user_factors, area, <<>>)))
                      @@ cv.user_factors]
    IN  IF DOMAIN user_factors = {} THEN cv
        ELSE IF area \notin DOMAIN cv.global_factors THEN stored
        ELSE LET global == cv.global_factors[area]
                 paired == { y \in DOMAIN user_factors :
                               /\ y \in DOMAIN global
                               /\ global[y].global_mean_factor > 0 }
                 adjustments == [ y \in paired |->
                                    FDiv(user_factors[y], global[y].global_mean_factor) ]
             IN  IF paired = {} THEN stored
                 ELSE LET avg_adjustment == SumOver(adjustments, paired)
                                              \div Cardinality(paired)
                      IN  [stored EXCEPT !.global_factors[area] =
                              [ y \in DOMAIN global |->
                                  [global[y] EXCEPT !.adjusted_factor =
                                      Some(FMul(global[y].global_mean_factor,
                                                avg_adjustment))] ]]

\* use_user_data and area in self.user_factors and len(self.user_factors[area]) > 0
HasUserFactors(cv, area, use_user_data) ==
    /\ use_user_data
    /\ area \in DOMAIN cv.user_factors
    /\ DOMAIN cv.user_factors[area] # {}

\* ConversionFactorsCalculator.project_factor_range_for_year
ProjectFactorRangeForYear(cv, area, target_year, use_user_data) ==
    IF HasUserFactors(cv, area, use_user_data)
    THEN LET uf == cv.user_factors[area]
             largest == CHOOSE y \in DOMAIN uf : \A z \in DOMAIN uf : uf[z] <= uf[y]
             smallest == CHOOSE y \in DOMAIN uf : \A z \in DOMAIN uf : uf[y] <= uf[z]
         IN  Some(<<uf[smallest], uf[largest]>>)
    ELSE None

\* sorted(keys)
RECURSIVE SortedYears(_)
SortedYears(keys) ==
    IF keys = {} THEN <<>>
    ELSE LET first == CHOOSE y \in keys : \A z \in keys : y <= z
         IN  <<first>> \o SortedYears(keys \ {first})

\* s[-k:]
LastOf(s, k) == SubSeq(s, Max2(1, Len(s) - k + 1), Len(s))

Products(a, b) == [i \in 1..Len(a) |-> a[i] * b[i]]

\* np.polyfit(xs, ys, 1) evaluated at t, coefficients[0] * t + coefficients[1]:
\* the least-squares line through the points, the years counted from xs[1]
LinearFit(xs, ys, t) ==
    LET n == Len(xs)
        dx == [i \in 1..n |-> xs[i] - xs[1]]
        sx == SumSeq(dx)
        sy == SumSeq(ys)
        sxx == SumSeq(Products(dx, dx))
        sxy == SumSeq(Products(dx, ys))
    IN  (sy * sxx - sx * sxy + (t - xs[1]) * (n * sxy - sx * sy))
          \div (n * sxx - sx * sx)

\* np.interp(t, xs, ys) on ascending xs
RECURSIVE Interp(_, _, _)
Interp(t, xs, ys) ==
    IF t <= xs[1] THEN ys[1]
    ELSE IF Len(xs) = 1 THEN ys[1]
    ELSE IF t < xs[2]
         THEN ys[1] + ((ys[2] - ys[1]) * (t - xs[1])) \div (xs[2] - xs[1])
         ELSE Interp(t, Tail(xs), Tail(ys))

\* the errors of the trend fitted on the years before year i at year i
RECURSIVE TrendPredictionErrors(_, _, _)
TrendPredictionErrors(user_years, user_factor_values, i) ==
    IF i > Len(user_years) THEN <<>>
    ELSE <<user_factor_values[i]
             - LinearFit(SubSeq(user_years, 1, i - 1),
                         SubSeq(user_factor_values, 1, i - 1), user_years[i])>>
         \o TrendPredictionErrors(user_years, user_factor_values, i + 1)

Abs(x) == IF x < 0 THEN 0 - x ELSE x

\* the errors within 2 median absolute deviations of the median error, when
\* there are at least 3 errors and some error remains
FilteredErrors(prediction_errors) ==
    IF Len(prediction_errors) >= 3
    THEN LET median_error == Median(prediction_errors)
             mad == Median([i \in 1..Len(prediction_errors) |->
                              Abs(prediction_errors[i] - median_error)])
             Near(e) == Abs(e - median_error) <= 2 * mad
             filtered_errors == SelectSeq(prediction_errors, Near)
         IN  IF Len(filtered_errors) > 0 THEN filtered_errors ELSE prediction_errors
    ELSE prediction_errors

\* project_factor_for_year, priority 1: the user's factors as baseline
ProjectFromUserFactors(cv, area, target_year) ==
    LET uf == cv.user_factors[area]
        user_years == SortedYears(DOMAIN uf)
        n == Len(user_years)
        user_factor_values == [i \in 1..n |-> uf[user_years[i]]]
        user_avg_factor == Mean(LastOf(user_factor_values, 2))
        last_user_year == user_years[n]
        last_user_factor == user_factor_values[n]
        global == GetOr(cv.global_factors, area, <<>>)
        global_last == IF last_user_year \in DOMAIN global
                       THEN global[last_user_year].global_mean_factor ELSE 0
        global_target == IF target_year \in DOMAIN global
                         THEN global[target_year].global_mean_factor ELSE 0
    IN  IF global_last # 0 /\ global_target # 0 /\ global_last > 0
        THEN LET difficulty_adjustment == FDiv(global_target, global_last)
                 trend_projected ==
                     IF n >= 2 THEN LinearFit(user_years, user_factor_values, target_year)
                     ELSE last_user_factor
             IN  Clip(FMul(trend_projected, difficulty_adjustment), Pts(10), Pts(50))
        ELSE IF n >= 3
        THEN LET prediction_errors ==
                     FilteredErrors(TrendPredictionErrors(user_years,
                                                          user_factor_values, 3))
                 avg_error == IF Len(prediction_errors) > 0
                              THEN WeightedSum(prediction_errors, 1)
                                     \div (Pow2(Len(prediction_errors)) - 1)
                              ELSE 0
                 trend_projected == LinearFit(user_years, user_factor_values,
                                              target_year)
             IN  Clip(trend_projected + FMul(Lit(5, 10), avg_error), Pts(10), Pts(50))
        ELSE IF n = 2 THEN Mean(user_factor_values)
        ELSE user_avg_factor

\* project_factor_for_year, priority 2: the global factors alone
ProjectFromGlobalFactors(cv, area, target_year) ==
    IF area \notin DOMAIN cv.global_factors THEN None
    ELSE LET global == cv.global_factors[area]
             years == SortedYears({ y \in DOMAIN global : y <= target_year })
         IN  IF years = <<>> THEN None
             ELSE LET recent_years == LastOf(years, 5)
                      k == Len(recent_years)
                      recent_factors ==
                          [i \in 1..k |->
                              LET yf == global[recent_years[i]]
                              IN  IF yf.adjusted_factor # None
                                  THEN yf.adjusted_factor[1]
                                  ELSE yf.global_mean_factor]
                  IN  IF target_year > years[Len(years)]
                      THEN IF k >= 2
                           THEN LET projected == LinearFit(recent_years, recent_factors,
                                                           target_year)
                                    last_factor == recent_factors[k]
                                    max_change == FMul(Lit(1, 10), last_factor)
                                    years_diff == target_year - years[Len(years)]
                                IN  Some(Clip(projected,
                                              last_factor - max_change * years_diff,
                                              last_factor + max_change * years_diff))
                           ELSE Some(recent_factors[k])
                      ELSE Some(Interp(target_year, recent_years, recent_factors))

\* ConversionFactorsCalculator.project_factor_for_year
ProjectFactorForYear(cv, area, target_year, use_user_data) ==
    IF HasUserFactors(cv, area, use_user_data)
    THEN Some(ProjectFromUserFactors(cv, area, target_year))
    ELSE ProjectFromGlobalFactors(cv, area, target_year)

\* ConversionFactorsCalculator.estimate_score_from_correct_answers
EstimateScoreFromCorrectAnswers(cv, area, correct_answers, year, return_range) ==
    IF return_range
    THEN LET factor_range == ProjectFactorRangeForYear(cv, area, year, TRUE)
         IN  IF factor_range = None THEN None
             ELSE LET min_factor == factor_range[1][1]
                      max_factor == factor_range[1][2]
                      median_factor == (min_factor + max_factor) \div 2
                      pessimistic_factor == (min_factor + median_factor) \div 2
                      optimistic_factor == FMul(Lit(9, 10), max_factor)
                  IN  <<Clip(pessimistic_factor * correct_answers, Pts(300), Pts(1000)),
                        Clip(optimistic_factor * correct_answers, Pts(300), Pts(1000))>>
    ELSE LET factor == ProjectFactorForYear(cv, area, year, TRUE)
         IN  IF factor = None THEN None
             ELSE Some(Clip(factor[1] * correct_answers, Pts(300), Pts(1000)))

----------------------------------------------------------------------------
(* A conversion factors calculator, its areas initialized from the
   statistics files, adjusted with the user's years and queried *)

\* the area whose factors are followed
FactorArea == "mathematics"

\* score statistics of a year with the given mean
ScoreStats(mean) == <<Pts(300), Pts(900), mean, Pts(100)>>

\* correct answers statistics of a year with the given mean
CaStats(mean) ==
    [ mean |-> mean, std |-> Pts(8), min |-> 0, max |-> Pts(45),
      percentiles |-> ("25" :> Pts(12)) @@ ("90" :> Pts(30)) ]

\* files of 2021..2023 for mathematics with the factors 25, 32.5 and 30, and
\* of 2023 for languages
FilesThreeYears ==
    << (2021 :> ("mathematics" :> ScoreStats(Pts(500))))
       @@ (2022 :> ("mathematics" :> ScoreStats(Pts(520))))
       @@ (2023 :> (("mathematics" :> ScoreStats(Pts(510)))
                    @@ ("languages" :> ScoreStats(Pts(520))))),
       (2021 :> ("mathematics" :> CaStats(Pts(20))))
       @@ (2022 :> ("mathematics" :> CaStats(Pts(16))))
       @@ (2023 :> (("mathematics" :> CaStats(Pts(17)))
                    @@ ("languages" :> CaStats(Pts(20))))) >>

\* files of 2021 and 2023 for mathematics with the factors 20 and 30; the
\* correct answers file of 2020 and both files of 2022 have languages only,
\* and the mean of the correct answers of 2024 is 0
FilesWithGap ==
    << (2020 :> ("mathematics" :> ScoreStats(Pts(520))))
       @@ (2021 :> ("mathematics" :> ScoreStats(Pts(500))))
       @@ (2022 :> ("languages" :> ScoreStats(Pts(520))))
       @@ (2023 :> ("mathematics" :> ScoreStats(Pts(540))))
       @@ (2024 :> ("mathematics" :> ScoreStats(Pts(530)))),
       (2020 :> ("languages" :> CaStats(Pts(20))))
       @@ (2021 :> ("mathematics" :> CaStats(Pts(25))))
       @@ (2022 :> ("languages" :> CaStats(Pts(20))))
       @@ (2023 :> ("mathematics" :> CaStats(Pts(18))))
       @@ (2024 :> ("mathematics" :> [CaStats(0) EXCEPT !.percentiles = <<>>])) >>

\* the calls of initialize_area: the files in place and the years asked
\* for, the default or a list
InitializeCalls ==
    { <<FilesThreeYears, None>>, <<FilesWithGap, None>>,
      <<FilesThreeYears, Some(<<2022, 2023>>)>> }

\* the (correct answers, scores, years) of the user's previous years: one
\* year, two years, three years with a year without a correct answer, five
\* years, one year with a factor above 50, and lists of different lengths
FactorHistories ==
    { <<(<<20>>), (<<Pts(600)>>), (<<2023>>)>>,
      <<(<<20, 20>>), (<<Pts(500), Pts(600)>>), (<<2022, 2023>>)>>,
      <<(<<25, 0, 20>>), (<<Pts(700), Pts(350), Pts(600)>>), (<<2021, 2022, 2023>>)>>,
      <<(<<10, 20, 25, 20, 20>>),
        (<<Pts(300), Pts(500), Pts(700), Pts(500), Pts(600)>>),
        (<<2019, 2020, 2021, 2022, 2023>>)>>,
      <<(<<5>>), (<<Pts(400)>>), (<<2024>>)>>,
      <<(<<20>>), (<<Pts(600)>>), (<<2022, 2023>>)>> }

\* the years projected for
TargetYears == { 2020, 2022, 2023, 2025 }

\* the counts converted
FactorCounts == { 0, 20, TotalQuestions }

\* conv.initialize_area(area, years) with the files in place
DoInitializeArea(files, area, years) ==
    /\ conv' = InitializeArea(conv, files, area, years)
    /\ last' = [NoCall EXCEPT !.op = "initialize_area", !.area = area,
                              !.years = years]
    /\ UNCHANGED <<est, calc>>

\* conv.adjust_factors_with_user_data(area, cs, ss, years)
DoAdjustFactorsWithUserData(area, h) ==
    /\ conv' = AdjustFactorsWithUserData(conv, area, h[1], h[2], h[3])
    /\ last' = [NoCall EXCEPT !.op = "adjust_factors_with_user_data",
                              !.area = area, !.cs = h[1], !.ss = h[2],
                              !.years = Some(h[3])]
    /\ UNCHANGED <<est, calc>>

\* conv.project_factor_for_year(area, target_year, use_user_data)
DoProjectFactorForYear(area, target_year, use_user_data) ==
    /\ last' = [NoCall EXCEPT !.op = "project_factor_for_year", !.area = area,
                              !.year = target_year, !.flag = use_user_data,
                              !.res = Returned(ProjectFactorForYear(
                                          conv, area, target_year, use_user_data))]
    /\ UNCHANGED <<est, calc, conv>>

\* conv.project_factor_range_for_year(area, target_year, use_user_data)
DoProjectFactorRangeForYear(area, target_year, use_user_data) ==
    /\ last' = [NoCall EXCEPT !.op = "project_factor_range_for_year",
                              !.area = area, !.year = target_year,
                              !.flag = use_user_data,
                              !.res = Returned(ProjectFactorRangeForYear(
                                          conv, area, target_year, use_user_data))]
    /\ UNCHANGED <<est, calc, conv>>

\* conv.estimate_score_from_correct_answers(area, c, year, return_range)
DoEstimateScoreFromCorrectAnswers(area, c, year, return_range) ==
    /\ last' = [NoCall EXCEPT !.op = "estimate_score_from_correct_answers",
                              !.area = area, !.c = c, !.year = year,
                              !.flag = return_range,
                              !.res = Returned(EstimateScoreFromCorrectAnswers(
                                          conv, area, c, year, return_range))]
    /\ UNCHANGED <<est, calc, conv>>

InitFactors ==
    /\ est = NewEstimator(DefaultParams)
    /\ calc = <<>>
    /\ last = NoCall
    /\ conv = ConversionFactorsCalculator

NextFactors ==
    \/ \E call \in InitializeCalls : DoInitializeArea(call[1], FactorArea, call[2])
    \/ \E h \in FactorHistories : DoAdjustFactorsWithUserData(FactorArea, h)
    \/ \E t \in TargetYears, use_user_data \in BOOLEAN :
          DoProjectFactorForYear(FactorArea, t, use_user_data)
    \/ \E t \in TargetYears, use_user_data \in BOOLEAN :
          DoProjectFactorRangeForYear(FactorArea, t, use_user_data)
    \/ \E c \in FactorCounts, t \in TargetYears, return_range \in BOOLEAN :
          DoEstimateScoreFromCorrectAnswers(FactorArea, c, t, return_range)

SpecFactors == InitFactors /\ [][NextFactors]_vars

----------------------------------------------------------------------------
(* Properties of the estimator *)

IsScore(r) == r.kind = "return" /\ Len(r.val) = 1

IsTriple(r) == r.kind = "return" /\ Len(r.val) = 3

\* no personal calibration is active on e
Uncalibrated(e) == e.score_map = None /\ ~e.interpolator

ValidCount(e, c) == 0 <= c /\ c <= e.total_questions

\* C1: on an estimator without active calibration and with
\* min_score <= max_score, estimate_score(c) of a valid count c returns a
\* score in [min_score, max_score].
C1_PopulationEstimateWithinRange ==
    ( /\ last.op = "estimate_score"
      /\ Uncalibrated(est)
      /\ est.min_score <= est.max_score
      /\ ValidCount(est, last.c) )
    => /\ IsScore(last.res)
       /\ est.min_score <= last.res.val[1]
       /\ last.res.val[1] <= est.max_score

C1_Witness ==
    /\ last.op = "estimate_score"
    /\ last.c = 25
    /\ Uncalibrated(est)
    /\ IsScore(last.res)
    /\ est.min_score < last.res.val[1]
    /\ last.res.val[1] < est.max_score

\* C2: estimate_score(c) raises the error naming 0..total_questions for every
\* c < 0 and every c > total_questions, calibrated or not; no value is
\* returned for such a count.
C2_OutOfRangeRaises ==
    (last.op = "estimate_score" /\ ~ValidCount(est, last.c))
    => last.res = Raised(MsgCorrectRange(est.total_questions))

C2_Witness ==
    /\ last.op = "estimate_score"
    /\ last.c = TotalQuestions + 1
    /\ est.interpolator
    /\ est.score_map # None
    /\ last.res.kind = "raise"

CalledWithValidArguments ==
    /\ last.op = "calculate_score"
    /\ \A a \in ObjectiveAreas : 0 <= last.counts[a] /\ last.counts[a] <= TotalQuestions
    /\ 0 <= last.essay
    /\ last.essay <= Pts(EssayMax)

\* C3: whatever statistics exist and whatever calibrate_with_user_data calls
\* were made, calculate_score with every count in 0..45 and an essay score
\* in [0, 1000] returns an ExamResult.
C3_CalculateScoreAlwaysReturns ==
    CalledWithValidArguments => last.res.kind = "return"

\* C4: in every ExamResult, the point score of an area whose estimator has a
\* personal factor lies in [300, 1000].
C4_FactorScoreBounded ==
    (last.op = "calculate_score" /\ last.res.kind = "return")
    => \A a \in ObjectiveAreas :
          calc.estimators[a].interpolator
          => /\ Pts(RangeFloor) <= last.res.val[1].scores[a]
             /\ last.res.val[1].scores[a] <= Pts(RangeCeil)

\* the indices of the stored history whose count is c
PairedWith(e, c) ==
    { i \in 1..Len(e.historical_correct_answers) :
        e.historical_correct_answers[i] = c }

RECURSIVE SumAt(_, _)
SumAt(s, idx) ==
    IF idx = {} THEN 0
    ELSE LET i == CHOOSE j \in idx : TRUE IN s[i] + SumAt(s, idx \ {i})

\* v is the arithmetic mean of the scores paired with c, to the resolution
IsMeanOfPaired(e, c, v) ==
    LET idx == PairedWith(e, c)
        total == SumAt(e.historical_scores, idx)
        n == Cardinality(idx)
    IN  v * n <= total /\ total < (v + 1) * n

\* C5 as stated: after an accepted set_historical_data(cs, ss), estimate_score
\* of every valid count that occurs in cs returns the mean of the scores
\* paired with it.
C5_ExactMatchForEveryCount ==
    ( /\ last.op = "estimate_score"
      /\ est.has_history
      /\ ValidCount(est, last.c)
      /\ PairedWith(est, last.c) # {} )
    => /\ IsScore(last.res)
       /\ IsMeanOfPaired(est, last.c, last.res.val[1])

\* C5 amended: the same, when at least one count of cs is greater than 0.
C5_ExactMatchWhenSomeCountPositive ==
    ( /\ last.op = "estimate_score"
      /\ est.has_history
      /\ \E i \in 1..Len(est.historical_correct_answers) :
            est.historical_correct_answers[i] > 0
      /\ ValidCount(est, last.c)
      /\ PairedWith(est, last.c) # {} )
    => /\ IsScore(last.res)
       /\ IsMeanOfPaired(est, last.c, last.res.val[1])

C5_Witness ==
    /\ last.op = "estimate_score"
    /\ last.c = 10
    /\ est.has_history
    /\ est.historical_correct_answers = <<10, 10>>
    /\ est.historical_scores = <<Pts(400), Pts(500)>>
    /\ last.res = Returned(Some(Pts(450)))

\* C6: every triple estimate_score_range returns is ordered and inside
\* [300, 1000]: 300 <= pessimistic <= calculated <= optimistic <= 1000.
C6_RangeOrdered ==
    (last.op = "estimate_score_range" /\ IsTriple(last.res))
    => /\ Pts(RangeFloor) <= last.res.val[1]
       /\ last.res.val[1] <= last.res.val[2]
       /\ last.res.val[2] <= last.res.val[3]
       /\ last.res.val[3] <= Pts(RangeCeil)

\* a triple from a history of decreasing scores, strictly inside the band
C6_Witness ==
    /\ last.op = "estimate_score_range"
    /\ IsTriple(last.res)
    /\ est.historical_scores[1] > est.historical_scores[2]
    /\ Pts(RangeFloor) < last.res.val[1]
    /\ last.res.val[1] < last.res.val[3]
    /\ last.res.val[3] < Pts(RangeCeil)

Fresh(e) ==
    TriEstimator(e.total_questions, e.min_score, e.max_score, e.mean_score,
                 e.std_deviation)

\* C8: after an accepted set_historical_data(B) the estimator is the one a
\* fresh estimator of the same parameters becomes by set_historical_data(B)
\* alone, whatever was set before; the queries read nothing but this state.
C8_RecalibrationReplaces ==
    [][ ( /\ last'.op = "set_historical_data"
          /\ Len(last'.cs) = Len(last'.ss)
          /\ Len(last'.cs) >= 2 )
        => est' = SetHistoricalData(Fresh(est), last'.cs, last'.ss, last'.years).est
      ]_vars

\* a calibrated estimator re-calibrated with data that yields no factor
C8_Witness ==
    /\ last.op = "set_historical_data"
    /\ Len(last.cs) = Len(last.ss)
    /\ Len(last.cs) >= 2
    /\ last.calibrated_before
    /\ est.historical_correct_answers = last.cs
    /\ Uncalibrated(est)

\* C9: set_historical_data with equal-length lists of fewer than 2 points
\* returns normally and leaves the estimator as it was.
C9_ShortListsAreIgnored ==
    [][ ( /\ last'.op = "set_historical_data"
          /\ Len(last'.cs) = Len(last'.ss)
          /\ Len(last'.cs) < 2 )
        => (last'.res = Returned(None) /\ est' = est) ]_vars

C9_Witness ==
    /\ last.op = "set_historical_data"
    /\ Len(last.cs) = 1
    /\ Len(last.ss) = 1
    /\ last.res = Returned(None)
    /\ last.calibrated_before
    /\ est.interpolator
    /\ est.historical_correct_answers # last.cs

\* C10: on an uncalibrated estimator with min_score <= max_score,
\* estimate_score(c) <= estimate_score(c + 1) for every c in
\* 0..total_questions - 1.
C10_PopulationEstimateMonotone ==
    ( /\ last.op = "estimate_score"
      /\ Uncalibrated(est)
      /\ est.min_score <= est.max_score
      /\ 0 <= last.c
      /\ last.c < est.total_questions )
    => /\ IsScore(last.res)
       /\ last.res.val[1] <= EstimateScore(est, last.c + 1, TRUE).val[1]

C10_Witness ==
    /\ last.op = "estimate_score"
    /\ Uncalibrated(est)
    /\ last.c = 22
    /\ IsScore(last.res)
    /\ last.res.val[1] < EstimateScore(est, last.c + 1, TRUE).val[1]

\* c is a count of the exact-match table of e
InScoreMap(e, c) == e.score_map # None /\ c \in DOMAIN e.score_map[1]

\* C11 as stated: on an estimator with an active personal calibration,
\* estimate_score(c) <= estimate_score(c + 1) for every c in
\* 0..total_questions - 1, exact-match counts and their neighbours included.
C11_CalibratedEstimateMonotone ==
    ( /\ last.op = "estimate_score"
      /\ est.interpolator
      /\ 0 <= last.c
      /\ last.c < est.total_questions )
    => /\ IsScore(last.res)
       /\ last.res.val[1] <= EstimateScore(est, last.c + 1, TRUE).val[1]

\* C11 amended: the same, when neither c nor c + 1 is a count of the
\* exact-match table, so that both estimates are factor x count.
C11_FactorPathMonotone ==
    ( /\ last.op = "estimate_score"
      /\ est.interpolator
      /\ 0 <= last.c
      /\ last.c < est.total_questions
      /\ ~InScoreMap(est, last.c)
      /\ ~InScoreMap(est, last.c + 1) )
    => /\ IsScore(last.res)
       /\ last.res.val[1] <= EstimateScore(est, last.c + 1, TRUE).val[1]

C11_Witness ==
    /\ last.op = "estimate_score"
    /\ est.interpolator
    /\ last.c = 15
    /\ InScoreMap(est, 10)
    /\ InScoreMap(est, 20)
    /\ IsScore(last.res)
    /\ last.res.val[1] < EstimateScore(est, last.c + 1, TRUE).val[1]

IsPair(r) == r.kind = "return" /\ Len(r.val) = 2

\* C12: for every valid count, every confidence level and every estimator
\* state, calibrated or not, get_confidence_interval returns (lower, upper)
\* with min_score <= lower < upper <= max_score (asked here only of
\* estimators with min_score < max_score and std_deviation > 0).
C12_IntervalWithinParameters ==
    ( /\ last.op = "get_confidence_interval"
      /\ est.min_score < est.max_score
      /\ est.std_deviation > 0
      /\ ValidCount(est, last.c) )
    => /\ IsPair(last.res)
       /\ est.min_score <= last.res.val[1]
       /\ last.res.val[1] < last.res.val[2]
       /\ last.res.val[2] <= est.max_score

\* upper - lower of a returned interval
Width(r) == r.val[2] - r.val[1]

\* C13 as stated: with std_deviation > 0, a higher confidence level gives a
\* strictly wider interval for the same estimator and the same valid count.
C13_HigherLevelStrictlyWider ==
    ( /\ last.op = "get_confidence_interval"
      /\ est.std_deviation > 0
      /\ ValidCount(est, last.c) )
    => /\ IsPair(last.res)
       /\ \A b \in ConfidenceLevels :
              b > last.confidence
              => Width(GetConfidenceInterval(est, last.c, b)) > Width(last.res)

\* C13 amended: the same, when max_score - min_score is more than twice the
\* margin of error of the lower level, so that the interval of the lower
\* level is not clamped at both ends.
C13_WiderUnlessClampedAtBothEnds ==
    ( /\ last.op = "get_confidence_interval"
      /\ est.std_deviation > 0
      /\ est.max_score - est.min_score > 2 * MarginOfError(est, last.confidence)
      /\ ValidCount(est, last.c) )
    => /\ IsPair(last.res)
       /\ \A b \in ConfidenceLevels :
              b > last.confidence
              => Width(GetConfidenceInterval(est, last.c, b)) > Width(last.res)

\* the 95% interval of a calibrated estimator, clamped at its lower end, with
\* a strictly wider 99% interval
C13_Witness ==
    /\ last.op = "get_confidence_interval"
    /\ last.confidence = 95
    /\ est.interpolator
    /\ IsPair(last.res)
    /\ last.res.val[1] = est.min_score
    /\ last.res.val[2] < est.max_score
    /\ Width(GetConfidenceInterval(est, last.c, 99)) > Width(last.res)

\* the operations of the estimator that take a count
CountOperations ==
    { "estimate_score", "estimate_score_range", "get_confidence_interval",
      "estimate_proficiency" }

\* C16: every operation of the estimator that takes a count raises an
\* invalid-input error for a count below 0 or above total_questions,
\* calibrated or not, and returns nothing computed from it.
C16_EveryOperationRejectsCount ==
    (last.op \in CountOperations /\ ~ValidCount(est, last.c))
    => last.res.kind = "raise"

----------------------------------------------------------------------------
(* Properties of the calculator *)

\* C14: calculate_score raises the error naming the 0..1000 bound whenever
\* the essay score is below 0 or above 1000, whatever the counts are and
\* before any count is looked at; it accepts 0 and 1000; no estimator changes.
C14_EssayScoreValidated ==
    [][ last'.op = "calculate_score"
        => /\ calc' = calc
           /\ (last'.essay < 0 \/ last'.essay > Pts(EssayMax))
                => last'.res = Raised(MsgEssayRange)
           /\ (0 <= last'.essay /\ last'.essay <= Pts(EssayMax))
                => last'.res # Raised(MsgEssayRange) ]_vars

\* an essay score above 1000 reported although two counts are out of range
\* and an estimator is calibrated
C14_Witness ==
    /\ last.op = "calculate_score"
    /\ last.essay > Pts(EssayMax)
    /\ last.counts["mathematics"] > TotalQuestions
    /\ last.counts["languages"] < 0
    /\ calc.estimators["mathematics"].interpolator
    /\ last.res = Raised(MsgEssayRange)

\* C15: calculate_area_score and get_confidence_interval raise for Essay,
\* for every count and in every calculator state; for an objective area they
\* return what that area's estimator returns.
C15_EssayUnsupported ==
    /\ last.op = "calculate_area_score"
       => IF last.area = Essay
          THEN last.res = Raised(MsgEssayNotCalculated)
          ELSE last.res = EstimateScore(calc.estimators[last.area], last.c, TRUE)
    /\ (last.op = "get_confidence_interval" /\ last.area # "")
       => IF last.area = Essay
          THEN last.res = Raised(MsgNoEssayInterval)
          ELSE last.res = GetConfidenceInterval(calc.estimators[last.area],
                                                last.c, last.confidence)

\* an area's score asked while another area's estimator would answer
\* differently
C15_Witness ==
    /\ last.op = "calculate_area_score"
    /\ last.area = "languages"
    /\ IsScore(last.res)
    /\ last.res # EstimateScore(calc.estimators["mathematics"], last.c, TRUE)

\* C17: calibrate_with_user_data on an objective area with lists of
\* different lengths raises the length-mismatch error of set_historical_data,
\* also when exactly one of the two lists is empty.
C17_LengthMismatchSurfaced ==
    ( /\ last.op = "calibrate_with_user_data"
      /\ last.area \in ObjectiveAreas
      /\ Len(last.cs) # Len(last.ss) )
    => last.res = Raised(MsgSameLength)

\* what the estimator e answers for the counts in AreaCounts
AnswersOf(e) ==
    [c \in AreaCounts |->
        <<EstimateScore(e, c, TRUE), EstimateScoreRange(e, c),
          GetConfidenceInterval(e, c, 95)>>]

\* C18: a calculator has exactly the four estimators of the objective areas
\* at all times; calibrate_with_user_data(area, ...) leaves the estimators of
\* the other areas and their estimate_score, estimate_score_range and
\* get_confidence_interval results as they were, and changes nothing at all
\* when the area is Essay.
C18_OnlyThatAreaChanges ==
    [][ /\ DOMAIN calc'.estimators = ObjectiveAreas
        /\ last'.op = "calibrate_with_user_data"
           => /\ \A a \in ObjectiveAreas \ {last'.area} :
                    /\ calc'.estimators[a] = calc.estimators[a]
                    /\ AnswersOf(calc'.estimators[a]) = AnswersOf(calc.estimators[a])
              /\ last'.area = Essay => calc' = calc ]_vars

\* languages has just been calibrated while mathematics holds an all-zero
\* history and the other two areas none
C18_Witness ==
    /\ last.op = "calibrate_with_user_data"
    /\ last.area = "languages"
    /\ last.cs = <<10, 20>>
    /\ calc.estimators["languages"].interpolator
    /\ calc.estimators["languages"].historical_correct_answers = <<10, 20>>
    /\ calc.estimators["mathematics"].has_history
    /\ ~calc.estimators["mathematics"].interpolator
    /\ ~calc.estimators["natural_sciences"].has_history
    /\ ~calc.estimators["human_sciences"].has_history

\* an accepted set_historical_data call (equal lengths, at least 2 points)
\* has stored its lists in e
HasTwoPoints(e) == e.has_history /\ Len(e.historical_correct_answers) >= 2

SomeCountPositive(e) ==
    \E i \in 1..Len(e.historical_correct_answers) :
        e.historical_correct_answers[i] > 0

\* C19 as stated: estimate_score_range returns None before 2 historical
\* points were supplied and a triple afterwards, and calculate_score fills
\* the range of an area with three values or none, exactly for the areas
\* calibrated with at least 2 points.
C19_RangeOnceTwoPoints ==
    /\ \A a \in ObjectiveAreas, c \in AreaCounts :
          LET r == EstimateScoreRange(calc.estimators[a], c)
          IN  IF HasTwoPoints(calc.estimators[a]) THEN IsTriple(r)
              ELSE r = Returned(None)
    /\ (last.op = "calculate_score" /\ last.res.kind = "return")
       => \A a \in ObjectiveAreas :
             LET range == last.res.val[1].ranges[a]
             IN  IF HasTwoPoints(calc.estimators[a]) THEN Len(range) = 3
                 ELSE range = None

\* C19 amended: the same, with the triple returned exactly when the 2 or
\* more points supplied last include a count greater than 0.
C19_RangeOnceFactorExists ==
    /\ \A a \in ObjectiveAreas, c \in AreaCounts :
          LET r == EstimateScoreRange(calc.estimators[a], c)
          IN  IF HasTwoPoints(calc.estimators[a])
                 /\ SomeCountPositive(calc.estimators[a])
              THEN IsTriple(r)
              ELSE r = Returned(None)
    /\ (last.op = "calculate_score" /\ last.res.kind = "return")
       => \A a \in ObjectiveAreas :
             LET range == last.res.val[1].ranges[a]
             IN  IF HasTwoPoints(calc.estimators[a])
                    /\ SomeCountPositive(calc.estimators[a])
                 THEN Len(range) = 3
                 ELSE range = None

\* a result with the range of mathematics filled, that of languages empty
\* after an all-zero history, and that of natural sciences empty without one
C19_Witness ==
    /\ last.op = "calculate_score"
    /\ last.res.kind = "return"
    /\ Len(last.res.val[1].ranges["mathematics"]) = 3
    /\ HasTwoPoints(calc.estimators["languages"])
    /\ last.res.val[1].ranges["languages"] = None
    /\ ~HasTwoPoints(calc.estimators["natural_sciences"])
    /\ last.res.val[1].ranges["natural_sciences"] = None

\* the population parameters the estimator e was built with
ParamsOf(e) == <<e.min_score, e.max_score, e.mean_score, e.std_deviation>>

\* the years of the window whose file has a record for the area a
YearsWithRecord(stats, a) ==
    { y \in WindowYears : y \in DOMAIN stats /\ a \in DOMAIN stats[y] }

\* the k-th statistic of the area a summed over the years from y on
RECURSIVE TotalFrom(_, _, _, _)
TotalFrom(stats, a, k, y) ==
    IF y \notin WindowYears THEN 0
    ELSE (IF y \in YearsWithRecord(stats, a) THEN stats[y][a][k] ELSE 0)
         + TotalFrom(stats, a, k, y + 1)

\* C20: with population data enabled, the parameters of each area's
\* estimator are the reference year's statistics of the area if that year
\* has them, else the average over the years of the window that have a
\* record for the area, else 300/900/500/100; every construction succeeds.
C20_ParameterCascade ==
    calc.use_inep_data
    => \A a \in ObjectiveAreas :
          LET p == ParamsOf(calc.estimators[a])
              ref == calc.reference_year
              n == Cardinality(YearsWithRecord(calc.stats, a))
          IN  IF ref \in DOMAIN calc.stats /\ a \in DOMAIN calc.stats[ref]
              THEN p = calc.stats[ref][a]
              ELSE IF n > 0
              THEN \A k \in 1..4 :
                      LET total == TotalFrom(calc.stats, a, k, 2020)
                      IN  p[k] * n <= total /\ total < (p[k] + 1) * n
              ELSE p = <<Pts(300), Pts(900), Pts(500), Pts(100)>>

\* a calculator whose reference year has mathematics only: languages is
\* averaged over two other years, natural sciences taken from one, human
\* sciences left at the defaults; it has answered a query
C20_Witness ==
    /\ calc.use_inep_data
    /\ calc.stats = StatsPartial
    /\ ParamsOf(calc.estimators["mathematics"]) = MathStats
    /\ 2 * calc.estimators["languages"].max_score <= LangStats[2] + HumStats[2]
    /\ 2 * calc.estimators["languages"].max_score + 2 > LangStats[2] + HumStats[2]
    /\ ParamsOf(calc.estimators["natural_sciences"]) = NatStats
    /\ calc.estimators["human_sciences"].max_score = Pts(900)
    /\ last.op = "calculate_area_score"
    /\ last.area = "languages"
    /\ IsScore(last.res)

\* the queries of the calculator
QueryOperations ==
    { "calculate_score", "calculate_area_score", "get_confidence_interval" }

\* what the call recorded in l returns when made on the calculator k
AnswerTo(k, l) ==
    CASE l.op = "calculate_score" -> CalculateScore(k, l.counts, l.essay)
      [] l.op = "calculate_area_score" -> CalculateAreaScore(k, l.area, l.c)
      [] l.op = "get_confidence_interval" ->
            AreaConfidenceInterval(k, l.area, l.c, l.confidence)

\* C21: calculate_score, calculate_area_score and get_confidence_interval,
\* and through them estimate_score, estimate_score_range and the estimator's
\* get_confidence_interval, leave every estimator as it was whether they
\* return or raise, so the same call made again returns the same result;
\* calibration leaves the population parameters and total_questions of every
\* estimator as they were.
C21_QueriesChangeNothing ==
    [][ /\ last'.op \in QueryOperations
           => (calc' = calc /\ est' = est /\ AnswerTo(calc', last') = last'.res)
        /\ last'.op = "calibrate_with_user_data"
           => \A a \in ObjectiveAreas :
                 /\ ParamsOf(calc'.estimators[a]) = ParamsOf(calc.estimators[a])
                 /\ calc'.estimators[a].total_questions
                       = calc.estimators[a].total_questions ]_vars

\* calculate_score has failed on a calculator with a calibrated estimator
C21_Witness ==
    /\ last.op = "calculate_score"
    /\ last.res = Raised(MsgScoreRange)
    /\ calc.estimators["mathematics"].interpolator
    /\ calc.estimators["languages"].has_history

MeanWellInside(e) ==
    LET edge == FMul(Lit(35, 1000), e.max_score - e.min_score)
    IN  e.min_score + edge < e.mean_score /\ e.mean_score < e.max_score - edge

PositivePoints(e) ==
    { i \in 1..Len(e.historical_correct_answers) :
        e.historical_correct_answers[i] > 0 }

\* score / correct_answers of the i-th point of the stored history
RatioAt(e, i) == e.historical_scores[i] \div e.historical_correct_answers[i]

\* v is the k-th smallest of the ratios of the points with a count greater
\* than 0: fewer than k of them lie below v and at least k do not lie above
IsKthRatio(e, v, k) ==
    LET idx == PositivePoints(e)
    IN  /\ \E i \in idx : RatioAt(e, i) = v
        /\ Cardinality({ i \in idx : RatioAt(e, i) < v }) < k
        /\ Cardinality({ i \in idx : RatioAt(e, i) <= v }) >= k

\* f is the median of the ratios of the points with a count greater than 0:
\* the middle ratio, or half-way between the two middle ratios
IsMedianRatio(e, f) ==
    LET idx == PositivePoints(e)
        n == Cardinality(idx)
    IN  \E i, j \in idx :
            /\ IsKthRatio(e, RatioAt(e, i), (n + 1) \div 2)
            /\ IsKthRatio(e, RatioAt(e, j), n \div 2 + 1)
            /\ f = (RatioAt(e, i) + RatioAt(e, j)) \div 2

\* C23: after an accepted set_historical_data whose points yield a factor,
\* estimate_score(c) of every valid count c outside the exact-match table is
\* f x c, f being the median of score / correct_answers over the points with
\* correct_answers > 0; the population model is not used.
C23_FactorIsMedianRatio ==
    ( /\ last.op = "estimate_score"
      /\ est.has_history
      /\ PositivePoints(est) # {}
      /\ ValidCount(est, last.c)
      /\ PairedWith(est, last.c) = {} )
    => /\ IsScore(last.res)
       /\ \E i, j \in PositivePoints(est) :
             LET f == (RatioAt(est, i) + RatioAt(est, j)) \div 2
             IN  IsMedianRatio(est, f) /\ last.res.val[1] = f * last.c

\* three factors with the median apart from the mean
C23_Witness ==
    /\ last.op = "estimate_score"
    /\ est.historical_correct_answers = <<10, 20, 30>>
    /\ est.historical_scores = <<Pts(400), Pts(700), Pts(600)>>
    /\ last.c = 15
    /\ last.res = Returned(Some(Pts(35) * 15))

\* C24: whenever a history is stored together with years, the stored
\* correct-answers list, scores list and years list have the same length.
C24_HistoryListsParallel ==
    (est.has_history /\ est.historical_years # None)
    => /\ Len(est.historical_correct_answers) = Len(est.historical_scores)
       /\ Len(est.historical_years[1]) = Len(est.historical_scores)

\* the sequence s from its last element to its first
Reversed(s) == [i \in 1..Len(s) |-> s[Len(s) + 1 - i]]

\* the estimator e calibrated with the triples of its history in the
\* opposite list order
ReorderedHistory(e) ==
    SetHistoricalData(Fresh(e), Reversed(e.historical_correct_answers),
                      Reversed(e.historical_scores),
                      Some(Reversed(e.historical_years[1]))).est

\* C25: the growth factor and the calculated score of estimate_score_range
\* depend on the (correct_answers, score, year) triples supplied, not on the
\* order of the lists: the same triples in the opposite order give the same
\* growth factor and the same range.
C25_GrowthFactorIgnoresListOrder ==
    ( /\ last.op = "estimate_score_range"
      /\ est.has_history
      /\ est.historical_years # None
      /\ Len(est.historical_years[1]) = Len(est.historical_scores) )
    => /\ CalculateGrowthFactor(est) = CalculateGrowthFactor(ReorderedHistory(est))
       /\ last.res = EstimateScoreRange(ReorderedHistory(est), last.c)

\* no score of the stored history but the last is greater than 0
NoRatioFormed(e) ==
    \A i \in 1..(Len(e.historical_scores) - 1) : e.historical_scores[i] <= 0

\* C26: the growth factor lies in [0.9, 1.15]; it is 1.0 when fewer than two
\* scores are stored or no score but the last is greater than 0; the
\* calculated score of a range is the midpoint of the band times the growth
\* factor, clipped to the band.
C26_GrowthFactorBounded ==
    LET g == CalculateGrowthFactor(est)
    IN  /\ Lit(9, 10) <= g
        /\ g <= Lit(115, 100)
        /\ (~est.has_history \/ Len(est.historical_scores) < 2 \/ NoRatioFormed(est))
              => g = Pts(1)
        /\ (last.op = "estimate_score_range" /\ IsTriple(last.res))
              => last.res.val[2]
                   = Clip(FMul((last.res.val[1] + last.res.val[3]) \div 2, g),
                          last.res.val[1], last.res.val[3])

\* a range from a history whose only ratio, 400/350, is inside the bounds
C26_Witness ==
    /\ last.op = "estimate_score_range"
    /\ IsTriple(last.res)
    /\ est.historical_scores = <<Pts(350), Pts(400)>>
    /\ Lit(9, 10) < CalculateGrowthFactor(est)
    /\ CalculateGrowthFactor(est) < Lit(115, 100)
    /\ CalculateGrowthFactor(est) # Pts(1)

\* the counts of the stored history
StoredCounts(e) ==
    { e.historical_correct_answers[i] : i \in 1..Len(e.historical_correct_answers) }

\* C30: the conversion factor, the table of exact matches and the
\* interpolator are all set or all absent; when they are set the stored
\* history has at least two points, one of them with a count greater than 0,
\* and every key of the table is a count of the stored history.
C30_CalibrationStateConsistent ==
    /\ est.interpolator <=> est.conversion_factor # None
    /\ est.interpolator <=> est.score_map # None
    /\ est.interpolator =>
          /\ HasTwoPoints(est)
          /\ Len(est.historical_scores) = Len(est.historical_correct_answers)
          /\ SomeCountPositive(est)
          /\ DOMAIN est.score_map[1] \subseteq StoredCounts(est)

\* the three are set after a history of three years, one without a correct
\* answer, and the table has the three counts as keys
C30_Witness ==
    /\ est.interpolator
    /\ est.conversion_factor # None
    /\ est.score_map # None
    /\ est.historical_correct_answers = <<0, 10, 20>>
    /\ DOMAIN est.score_map[1] = {0, 10, 20}

----------------------------------------------------------------------------
(* Properties of the conversion factors calculator *)

\* the personal factors stored for the area, by year
PersonalFactors(cv, area) ==
    IF area \in DOMAIN cv.user_factors THEN cv.user_factors[area] ELSE <<>>

\* the population factors known for the area, by year
PopulationFactors(cv, area) ==
    IF area \in DOMAIN cv.global_factors THEN cv.global_factors[area] ELSE <<>>

\* the user-data path applies: use_user_data and a personal factor stored
Personal(cv, area, use_user_data) ==
    use_user_data /\ DOMAIN PersonalFactors(cv, area) # {}

\* the population has a factor for the last personal year and one for the
\* target year, the former greater than 0 and the latter other than 0
UsablePopulationPair(cv, area, target_year) ==
    LET personal == DOMAIN PersonalFactors(cv, area)
        population == PopulationFactors(cv, area)
        last_year == CHOOSE y \in personal : \A z \in personal : z <= y
    IN  /\ last_year \in DOMAIN population
        /\ target_year \in DOMAIN population
        /\ population[last_year].global_mean_factor > 0
        /\ population[target_year].global_mean_factor # 0

\* C27: project_factor_for_year with use_user_data and a personal factor
\* stored always answers from the personal factors: the factor itself when
\* there is one year and no usable population pair, the simple average when
\* there are two and no usable population pair, a value in [10, 50] from the
\* difficulty-adjusted branch and from three or more years; without a
\* personal factor (or with use_user_data false) the population-only path
\* answers; the result is unavailable only when no personal factor applies
\* and no population factor is stored for the area.
C27_ProjectionCascade ==
    last.op = "project_factor_for_year" =>
        LET uf == PersonalFactors(conv, last.area)
            n == Cardinality(DOMAIN uf)
            personal == Personal(conv, last.area, last.flag)
            usable == personal /\ UsablePopulationPair(conv, last.area, last.year)
        IN  /\ personal => IsScore(last.res)
            /\ (personal /\ n = 1 /\ ~usable)
                  => \E y \in DOMAIN uf : last.res.val = Some(uf[y])
            /\ (personal /\ n = 2 /\ ~usable)
                  => last.res.val = Some(SumOver(uf, DOMAIN uf) \div 2)
            /\ (personal /\ (usable \/ n >= 3))
                  => /\ Pts(10) <= last.res.val[1]
                     /\ last.res.val[1] <= Pts(50)
            /\ ~personal
                  => last.res.val = ProjectFromGlobalFactors(conv, last.area, last.year)
            /\ last.res.val = None
                  => /\ ~personal
                     /\ DOMAIN PopulationFactors(conv, last.area) = {}

\* the factor the population-only path reads for a year: the adjusted one
\* where there is one, the raw one otherwise
FactorOf(yf) ==
    IF yf.adjusted_factor # None THEN yf.adjusted_factor[1] ELSE yf.global_mean_factor

\* C28: on the population-only path of project_factor_for_year, a target
\* year after every known year gets the regression extrapolation kept within
\* 10% of the last known factor per year of distance; a target year inside
\* the range of the known years, known itself or not, gets the linear
\* interpolation of the known factors at the target year, the adjusted
\* factor where available and the raw factor otherwise.
C28_PopulationOnlyProjection ==
    ( /\ last.op = "project_factor_for_year"
      /\ ~Personal(conv, last.area, last.flag)
      /\ DOMAIN PopulationFactors(conv, last.area) # {} )
    => LET population == PopulationFactors(conv, last.area)
           known == LastOf(SortedYears(DOMAIN population), 5)
           k == Len(known)
           factors == [i \in 1..k |-> FactorOf(population[known[i]])]
           distance == last.year - known[k]
           drift == FMul(Lit(1, 10), factors[k]) * distance
       IN  /\ last.year > known[k]
                => /\ IsScore(last.res)
                   /\ factors[k] - drift <= last.res.val[1]
                   /\ last.res.val[1] <= factors[k] + drift
                   /\ k >= 2 => last.res.val[1]
                                  = Clip(LinearFit(known, factors, last.year),
                                         factors[k] - drift, factors[k] + drift)
           /\ (known[1] <= last.year /\ last.year <= known[k])
                => last.res.val = Some(Interp(last.year, known, factors))

InScoreBounds(x) == Pts(300) <= x /\ x <= Pts(1000)

\* C29: estimate_score_from_correct_answers returns nothing or values in
\* [300, 1000]; with return_range and personal factors stored it returns a
\* pair (pessimistic, optimistic), both in [300, 1000], with
\* pessimistic <= optimistic.
C29_ConvertedScoresBounded ==
    last.op = "estimate_score_from_correct_answers" =>
        /\ \/ last.res.val = None
           \/ IsScore(last.res) /\ InScoreBounds(last.res.val[1])
           \/ /\ IsPair(last.res)
              /\ InScoreBounds(last.res.val[1])
              /\ InScoreBounds(last.res.val[2])
        /\ (last.flag /\ DOMAIN PersonalFactors(conv, last.area) # {})
              => /\ IsPair(last.res)
                 /\ InScoreBounds(last.res.val[1])
                 /\ InScoreBounds(last.res.val[2])
                 /\ last.res.val[1] <= last.res.val[2]

====
